---- MODULE Spec2Model ----
(***************************************************************************)
(* A model of the resilient invocation pipeline of graphrag's Claude       *)
(* support:                                                                *)
(*   - the structured-output enforcer ClaudeChatLLM._invoke_json           *)
(*     (src/graphrag/llm/claude/claude_chat_llm.py), specification         *)
(*     SpecJson;                                                           *)
(*   - the retry wrapper ChatClaude.generate / agenerate                   *)
(*     (src/graphrag/query/llm/claude/chat_claude.py), specification       *)
(*     SpecRetry;                                                          *)
(*   - the system-turn normalizers of both (SpecNorm), the decorator chain *)
(*     of create_claude_chat_llm (SpecChain), the JSON recovery parser     *)
(*     (SpecParse), and logical calls running concurrently on one instance *)
(*     (SpecConc).                                                         *)
(***************************************************************************)
EXTENDS Integers, Sequences, FiniteSets, TLC

VARIABLES
    \* ---- ClaudeChatLLM._invoke_json ----
    configuration,   \* self.configuration: model, model_alt, model_supports_json
    kwargs,          \* the caller's keyword arguments (LLMInput)
    jpc,             \* position inside _invoke_json
    retry,           \* the local `retry` (index of the next attempt)
    result,          \* the local `result` (LLMOutput of the latest attempt)
    calls,           \* what reached client.messages.create, one entry per attempt
    joutcome,        \* how _invoke_json ended
    applied,         \* the values is_response_valid has been called with
    \* ---- ChatClaude.generate / agenerate ----
    self,            \* the ChatClaude instance: model, max_retries
    call,            \* the arguments of generate(): streaming, callbacks
    pc,              \* position inside generate()
    attempt_number,  \* tenacity's retry_state.attempt_number
    sdk_retries,     \* retries the Anthropic client has made inside the current call
    requests,        \* physical requests that reached the remote service
    all_retryable,   \* every one of them failed with a rate limit or connection error
    waits,           \* the backoff waits taken so far, in 1/JitterSteps time-units
    last_exc,        \* the exception the latest _generate raised, or None
    outcome,         \* how generate() ended
    text_stream,     \* stream.text_stream of the latest request that succeeded
    tokens,          \* the tokens on_llm_new_token has received, in order
    \* ---- the message normalizer ----
    component,       \* whose normalizer runs: "ClaudeChatLLM" or "ChatClaude"
    messages,        \* the caller's history / messages argument
    npc,             \* position inside the call
    request,         \* the arguments assembled for the client call
    delivered,       \* the requests that reached the client, one per attempt
    \* ---- the decorator chain of create_claude_chat_llm ----
    deps,            \* what the factory was given: limiter, semaphore, cache
    chain,           \* the layers the factory built, outer to inner
    store,           \* the keys the cache holds a result for
    invocation,      \* the logical call in progress: input, json
    trace,           \* the layers the call has entered, in order
    cache_hit,       \* the cache answered the call
    cpc,             \* position of the call in the chain
    served,          \* logical calls completed
    \* ---- the JSON recovery parser ----
    input_text,      \* the text handed to the parser
    cleaned,         \* clean_up_json(input_text)
    recleaned,       \* clean_up_json of that output
    extracted,       \* extract_json_object(input_text)
    manual,          \* _manual_json on a response with the text input_text
    \* ---- logical calls running concurrently on one instance ----
    frames,          \* the locals of each call in progress, one frame per call
    events           \* what each call has met at its suspension points, in order

jvars == <<configuration, kwargs, jpc, retry, result, calls, joutcome,
          applied>>
rvars == <<self, call, pc, attempt_number, sdk_retries, requests,
           all_retryable, waits, last_exc, outcome, text_stream, tokens>>
nvars == <<component, messages, npc, request, delivered>>
cvars == <<deps, chain, store, invocation, trace, cache_hit, cpc, served>>
pvars == <<input_text, cleaned, recleaned, extracted, manual>>
tvars == <<frames, events>>
vars == <<configuration, kwargs, jpc, retry, result, calls, joutcome,
          applied,
          self, call, pc, attempt_number, sdk_retries, requests,
          all_retryable, waits, last_exc, outcome, text_stream, tokens,
          component, messages, npc, request, delivered,
          deps, chain, store, invocation, trace, cache_hit, cpc, served,
          input_text, cleaned, recleaned, extracted, manual,
          frames, events>>

\* Python's None.
None == "None"

(***************************************************************************)
(* Part 1.  The structured-output enforcer, ClaudeChatLLM._invoke_json.    *)
(***************************************************************************)

\* _MAX_GENERATION_RETRIES
MAX_GENERATION_RETRIES == 3

FAILED_TO_CREATE_JSON_ERROR == "Failed to generate valid JSON output"

\* The texts the remote model answers with (result.output of _invoke); None is
\* a response without output.  ''' stands for the markdown fence of three
\* backquotes.
RawOutputs ==
    { "{\"a\":1}", "{\"b\":2}", "'''json\n{\"a\":1}\n'''", "[1]", "no json", None }

\* The values json.loads yields on the texts above.
DictA == "dict{a:1}"
DictB == "dict{b:2}"
List1 == "list[1]"
Dicts == {DictA, DictB}

\* The placeholder _manual_json stores after a parse failure: the empty str.
EmptyStr == ""

\* json.loads: the parsed value, or None standing for JSONDecodeError.
json_loads(s) ==
    CASE s = "{\"a\":1}" -> DictA
      [] s = "{\"b\":2}" -> DictB
      [] s = "[1]"       -> List1
      [] OTHER           -> None

\* clean_up_json on the texts of RawOutputs: newlines are removed, the
\* markdown frame is removed, and a text that parses is returned as it is;
\* a text with no JSON object in it is returned as cleaned.
clean_up_json(json_str) ==
    CASE json_str = "'''json\n{\"a\":1}\n'''" -> "{\"a\":1}"
      [] OTHER -> json_str

\* utils.try_parse_json_object: json.loads, re-raising JSONDecodeError, and
\* TypeError for a value that is not a dict.
try_parse_json_object(input) ==
    LET v == json_loads(input) IN
    IF v = None THEN [exc |-> "JSONDecodeError", val |-> None]
    ELSE IF v \notin Dicts THEN [exc |-> "TypeError", val |-> None]
    ELSE [exc |-> None, val |-> v]

\* `x or y` on the values used here: None and the empty str are falsy.
Or(x, y) == IF x = None \/ x = "" THEN y ELSE x

\* The caller's validity predicates, kwargs.get("is_response_valid"): not
\* supplied, or supplied and accepting a set of values of result.json.
PredicateDomain == Dicts \cup {EmptyStr}
Predicates ==
    {[supplied |-> FALSE, accepts |-> {}]}
        \cup [supplied : {TRUE}, accepts : SUBSET PredicateDomain]

\* is_response_valid = kwargs.get("is_response_valid") or (lambda _x: True)
is_response_valid(x) ==
    IF ~kwargs.is_response_valid.supplied THEN TRUE
    ELSE x \in kwargs.is_response_valid.accepts

\* A faulty variant of is_valid: the caller's predicate is not consulted.
is_valid_no_predicate(x) == x # None

\* The values is_valid(x) hands to is_response_valid: x, unless x is None
\* (`and` does not evaluate its right operand then).
received(x) == IF x # None THEN {x} ELSE {}

\* def is_valid(x): return x is not None and is_response_valid(x)
is_valid(x) == x # None /\ is_response_valid(x)

\* utils.get_completion_llm_args(parameters, configuration): the arguments of
\* the request, built from the configuration and overridden by the call's
\* model_parameters.
get_completion_llm_args(parameters, config) ==
    [model |-> config.model, response_format |-> parameters.response_format]

\* call_name = f"{name}@{attempt}"
call_name(name, attempt) == name \o "@" \o ToString(attempt)

\* The objects generate(attempt) works on, by address: the dict _invoke_json
\* holds as kwargs, the objects its model_parameters and history entries
\* refer to, and the place of the dict that kwargs.copy() makes.  The entry
\* of a dict for model_parameters or history is the address of the object.
Heap(kw) ==
    [kwargs |-> [kw EXCEPT !.model_parameters = "model_parameters",
                           !.history = "history"],
     model_parameters |-> kw.model_parameters,
     history |-> kw.history,
     copy |-> None]

\* The dict at the address ref, its entries replaced by the objects they
\* refer to.
Deref(h, ref) ==
    [h[ref] EXCEPT !.model_parameters = h[@], !.history = h[@]]

\* A faulty variant of dict_copy: no copy is made, the same dict goes under
\* a second name.
dict_shared(h, src) == [heap |-> h, ref |-> src]

\* dict.copy(): a new dict with the entries of the dict at src; the objects
\* the entries refer to are not copied.
dict_copy(h, src) == [heap |-> [h EXCEPT !.copy = h[src]], ref |-> "copy"]

\* generate(attempt) up to the call of _native_json or _manual_json: the
\* copy of kwargs, the model written on a fallback attempt when model_alt is
\* configured, and the call name written.
generate_heap(attempt) ==
    LET name == Or(kwargs.name, "unknown")
        c == dict_copy(Heap(kwargs), "kwargs")
        h1 == IF attempt > 0 /\ configuration.model_alt # None
              THEN [c.heap EXCEPT ![c.ref].model = configuration.model_alt]
              ELSE c.heap
    IN [heap |-> [h1 EXCEPT ![c.ref].name = call_name(name, attempt)],
        ref |-> c.ref]

\* The keyword arguments generate(attempt) builds: a copy of kwargs with the
\* name set to name@attempt and, from attempt 1 on, the model set to model_alt.
modified_kwargs(attempt) ==
    LET g == generate_heap(attempt) IN Deref(g.heap, g.ref)

\* The dict _invoke_json holds as kwargs, once generate(attempt) has built
\* its request.
kwargs_after(attempt) == Deref(generate_heap(attempt).heap, "kwargs")

\* What _native_json adds: response_format = json_object in model_parameters.
native_kwargs(kw) ==
    [kw EXCEPT !.model_parameters = [response_format |-> "json_object"]]

\* What _execute_llm passes to client.messages.create for the keyword
\* arguments kw: args come from kw's model_parameters and the configuration;
\* kw's name and model are recorded beside them.
execute_llm_request(kw) ==
    LET args == get_completion_llm_args(kw.model_parameters, configuration)
    IN [name |-> kw.name, kwmodel |-> kw.model, model |-> args.model,
        response_format |-> args.response_format]

\* _manual_json on a response: the cleaned text and its parse, or the empty
\* output and the empty str for json when parsing raises.
manual_json(output) ==
    LET text == clean_up_json(Or(output, ""))
        p == try_parse_json_object(text)
    IN IF p.exc = None THEN [output |-> text, json |-> p.val, exc |-> None]
       ELSE [output |-> "", json |-> EmptyStr, exc |-> None]

\* _native_json on a response: the raw text and its parse; a parse error is
\* not caught.
native_json(output) ==
    LET raw_output == Or(output, "")
        p == try_parse_json_object(raw_output)
    IN [output |-> raw_output, json |-> p.val, exc |-> p.exc]

\* A faulty variant of loop_continues: one attempt too many.
loop_continues_off_by_one(json, r) ==
    ~is_valid(json) /\ r <= MAX_GENERATION_RETRIES

\* A faulty variant of loop_continues: the loop runs out the attempts, valid or not.
loop_continues_ignoring_valid(json, r) ==
    r < MAX_GENERATION_RETRIES

\* while not is_valid(result.json) and retry < _MAX_GENERATION_RETRIES
loop_continues(json, r) ==
    ~is_valid(json) /\ r < MAX_GENERATION_RETRIES

NoResult == [output |-> None, json |-> None, exc |-> None]
Running == [kind |-> "running", error |-> None, result |-> NoResult]

\* The wrapper's variables while the enforcer runs.
RetryIdle ==
    /\ self = [model |-> None, max_retries |-> 0]
    /\ call = [streaming |-> FALSE, callbacks |-> 0]
    /\ pc = "idle"
    /\ attempt_number = 0
    /\ sdk_retries = 0
    /\ requests = 0
    /\ all_retryable = TRUE
    /\ waits = <<>>
    /\ last_exc = None
    /\ outcome = [kind |-> "running", error |-> None, text |-> <<>>]
    /\ text_stream = [open |-> FALSE, deltas |-> <<>>]
    /\ tokens = <<>>

\* The message normalizer before any call.
NormIdle ==
    /\ component = None
    /\ messages = [is_str |-> TRUE, turns |-> <<>>, text |-> ""]
    /\ npc = "idle"
    /\ request = [messages |-> <<>>,
                  system |-> [passed |-> FALSE, value |-> None]]
    /\ delivered = <<>>

\* The decorator chain before it is built.
ChainIdle ==
    /\ deps = [limiter |-> FALSE, semaphore |-> FALSE, cache |-> FALSE]
    /\ chain = <<>>
    /\ store = {}
    /\ invocation = [input |-> None, json |-> FALSE]
    /\ trace = <<>>
    /\ cache_hit = FALSE
    /\ cpc = "idle"
    /\ served = 0

\* The JSON recovery parser before any call.
ParseIdle ==
    /\ input_text = <<>>
    /\ cleaned = [done |-> FALSE, text |-> <<>>]
    /\ recleaned = [done |-> FALSE, text |-> <<>>]
    /\ extracted = [done |-> FALSE,
                    result |-> [found |-> FALSE, obj |-> <<"none", <<>>>>]]
    /\ manual = [done |-> FALSE,
                 result |-> [output |-> <<>>, parsed |-> FALSE,
                             json |-> <<"none", <<>>>>, exc |-> None]]

\* No logical call is running on a shared instance.
ConcIdle ==
    /\ frames = <<>>
    /\ events = <<>>

JsonInit ==
    /\ configuration \in [model : {"primary"}, model_alt : {None, "alt"},
                          model_supports_json : BOOLEAN]
    /\ kwargs \in [name : {None, "op"}, model : {None},
                   is_response_valid : Predicates,
                   history : {<<>>, <<"turn">>},
                   model_parameters : {[response_format |-> None]}]
    /\ jpc = "generate"
    /\ retry = 0
    /\ result = NoResult
    /\ calls = <<>>
    /\ joutcome = Running
    /\ applied = {}
    /\ RetryIdle
    /\ NormIdle
    /\ ChainIdle
    /\ ParseIdle
    /\ ConcIdle

\* The entry of the log `calls` for one attempt: the request, the response's
\* text and the LLMOutput (or the exception) the attempt ended with.
Attempt(attempt, output, r) ==
    LET kw == modified_kwargs(attempt)
        sent == IF configuration.model_supports_json
                THEN native_kwargs(kw) ELSE kw
    IN [request |-> execute_llm_request(sent), output |-> output, result |-> r]

\* await generate(retry), the response arriving: the request is built and
\* sent, and the branch (native or manual) turns the response into a result;
\* the native branch lets a parse error leave _invoke_json.
GenerateReturns(output) ==
    /\ jpc = "generate"
    /\ LET r == IF configuration.model_supports_json
                THEN native_json(output) ELSE manual_json(output)
       IN /\ calls' = Append(calls, Attempt(retry, output, r))
          /\ IF r.exc = None
             THEN /\ result' = r
                  /\ retry' = retry + 1
                  /\ jpc' = "check"
                  /\ UNCHANGED joutcome
             ELSE /\ jpc' = "done"
                  /\ joutcome' = [kind |-> "raised", error |-> r.exc,
                                  result |-> NoResult]
                  /\ UNCHANGED <<result, retry>>
    /\ kwargs' = kwargs_after(retry)
    /\ UNCHANGED <<configuration, applied>>
    /\ UNCHANGED <<rvars, nvars, cvars, pvars, tvars>>

\* await generate(retry), the request failing inside _invoke (the transport):
\* the error leaves _invoke_json.
GenerateRaises ==
    /\ jpc = "generate"
    /\ calls' = Append(calls, Attempt(retry, None,
                   [output |-> None, json |-> None, exc |-> "TransportError"]))
    /\ jpc' = "done"
    /\ joutcome' = [kind |-> "raised", error |-> "TransportError",
                    result |-> NoResult]
    /\ kwargs' = kwargs_after(retry)
    /\ UNCHANGED <<configuration, result, retry, applied>>
    /\ UNCHANGED <<rvars, nvars, cvars, pvars, tvars>>

\* The loop's test holds: the next attempt is generate(retry).
LoopRetry ==
    /\ jpc = "check"
    /\ loop_continues(result.json, retry)
    /\ jpc' = "generate"
    /\ applied' = applied \cup received(result.json)
    /\ UNCHANGED <<configuration, kwargs, result, retry, calls, joutcome>>
    /\ UNCHANGED <<rvars, nvars, cvars, pvars, tvars>>

\* After the loop: if is_valid(result.json): return result
ReturnResult ==
    /\ jpc = "check"
    /\ ~loop_continues(result.json, retry)
    /\ is_valid(result.json)
    /\ jpc' = "done"
    /\ joutcome' = [kind |-> "returned", error |-> None, result |-> result]
    /\ applied' = applied \cup received(result.json)
    /\ UNCHANGED <<configuration, kwargs, result, retry, calls>>
    /\ UNCHANGED <<rvars, nvars, cvars, pvars, tvars>>

\* After the loop: raise RuntimeError(FAILED_TO_CREATE_JSON_ERROR)
RaiseJsonFailure ==
    /\ jpc = "check"
    /\ ~loop_continues(result.json, retry)
    /\ ~is_valid(result.json)
    /\ jpc' = "done"
    /\ joutcome' = [kind |-> "raised", error |-> FAILED_TO_CREATE_JSON_ERROR,
                    result |-> NoResult]
    /\ applied' = applied \cup received(result.json)
    /\ UNCHANGED <<configuration, kwargs, result, retry, calls>>
    /\ UNCHANGED <<rvars, nvars, cvars, pvars, tvars>>

JsonNext ==
    \/ \E output \in RawOutputs : GenerateReturns(output)
    \/ GenerateRaises
    \/ LoopRetry
    \/ ReturnResult
    \/ RaiseJsonFailure

SpecJson == JsonInit /\ [][JsonNext]_vars

(***************************************************************************)
(* Claims about the enforcer, checked under SpecJson.                      *)
(***************************************************************************)

\* The caller supplied a predicate that rejects every value of result.json.
AlwaysRejects ==
    kwargs.is_response_valid.supplied /\ kwargs.is_response_valid.accepts = {}

\* An attempt did not complete: generate() raised (in the transport, or the
\* native branch's parse).
AttemptRaised ==
    joutcome.kind = "raised" /\ joutcome.error # FAILED_TO_CREATE_JSON_ERROR

\* The attempt c (an entry of calls) completed with a successful parse.
Parsed(c) == c.result.exc = None /\ c.result.json \in Dicts

FirstAttemptAccepted ==
    /\ Len(calls) >= 1
    /\ Parsed(calls[1])
    /\ is_response_valid(calls[1].result.json)

\* C2: if attempt 0 produces a parsed value that the predicate accepts, no
\* further attempt is made, no request names the fallback model, and the call
\* ends by returning the result of attempt 0.
C2_EarlyExit ==
    FirstAttemptAccepted =>
        /\ Len(calls) = 1
        /\ \A i \in DOMAIN calls :
              /\ calls[i].request.kwmodel = kwargs.model
              /\ calls[i].request.model = configuration.model
        /\ jpc = "done" =>
              /\ joutcome.kind = "returned"
              /\ joutcome.result = calls[1].result

\* C2's case: a fallback model is configured, a predicate is supplied, and
\* the call returned after attempt 0.
C2_Witness ==
    /\ FirstAttemptAccepted
    /\ configuration.model_alt # None
    /\ kwargs.is_response_valid.supplied
    /\ jpc = "done"
    /\ joutcome.kind = "returned"

\* C3: whenever _invoke_json returns a result, the result's json is a value
\* that the caller's predicate (when one was supplied) accepts.
C3_ReturnedIsAccepted ==
    joutcome.kind = "returned" =>
        /\ joutcome.result.json # None
        /\ kwargs.is_response_valid.supplied =>
              joutcome.result.json \in kwargs.is_response_valid.accepts

\* C3's case: a result was returned after an earlier attempt's value was
\* rejected by a predicate that does not accept everything.
C3_Witness ==
    /\ joutcome.kind = "returned"
    /\ kwargs.is_response_valid.supplied
    /\ kwargs.is_response_valid.accepts # PredicateDomain
    /\ Len(calls) >= 2
    /\ Parsed(calls[1])

\* C4: an attempt counts as valid only if its output was successfully
\* parsed: a returned result comes from an attempt whose output parsed, and is
\* never the empty output with the empty json of a parse failure.
C4_ValidOnlyIfParsed ==
    joutcome.kind = "returned" =>
        /\ Parsed(calls[Len(calls)])
        /\ ~(joutcome.result.output = "" /\ joutcome.result.json = EmptyStr)

\* C5: with a fallback model configured, attempt 0 is executed against the
\* primary model and every later attempt against the fallback model; with
\* none configured, every attempt is executed against the primary model.
C5_FallbackFromAttemptOne ==
    \A i \in DOMAIN calls :
        calls[i].request.model =
            IF i >= 2 /\ configuration.model_alt # None
            THEN configuration.model_alt ELSE configuration.model

\* The attempt c received a response whose text does not parse as JSON
\* (after clean_up_json in the manual branch, as it is in the native one).
Unparsable(c) ==
    /\ c.result.exc # "TransportError"
    /\ LET raw == Or(c.output, "")
           text == IF configuration.model_supports_json
                   THEN raw ELSE clean_up_json(raw)
       IN try_parse_json_object(text).exc = "JSONDecodeError"

\* C14: in both branches an attempt whose raw output is unparsable is an
\* invalid attempt: the call does not end with it unless the attempt budget
\* is used up, and then it ends with the JSON-failure error; no parse error
\* reaches the caller.
C14_MalformedOutputStaysInside ==
    /\ joutcome.kind = "raised" =>
           joutcome.error \notin {"JSONDecodeError", "TypeError"}
    /\ (jpc = "done" /\ Len(calls) > 0 /\ Unparsable(calls[Len(calls)])) =>
           /\ Len(calls) = MAX_GENERATION_RETRIES
           /\ joutcome.kind = "raised"
           /\ joutcome.error = FAILED_TO_CREATE_JSON_ERROR

(***************************************************************************)
(* Part 2.  The retry wrapper, ChatClaude.generate / agenerate (and the    *)
(* same code in Claude.generate / agenerate).                              *)
(***************************************************************************)

\* max_retries ranges over 0..MaxRetriesBound.
MaxRetriesBound == 6

\* The jitter is drawn from 0, 1/JitterSteps, ..., 1 time-units; waits are
\* counted in units of 1/JitterSteps.
JitterSteps == 2

\* wait_exponential_jitter(max=10): initial=1, exp_base=2, jitter=1 by default.
WaitInitial == 1
WaitExpBase == 2
WaitJitter == 1
WaitMax == 10

\* The failures a physical request can end with.
RemoteErrors ==
    {"RateLimitError", "APIConnectionError", "InternalServerError",
     "BadRequestError"}

\* CLAUDE_RETRY_ERROR_TYPES
CLAUDE_RETRY_ERROR_TYPES == {"RateLimitError", "APIConnectionError"}

\* What the Anthropic client retries by itself, up to its max_retries: a
\* connection error, a rate limit, a server error.
ClientRetried == {"RateLimitError", "APIConnectionError", "InternalServerError"}

\* The texts of a successful response, as the deltas of its stream (the
\* non-streaming response holds the same text in one block).
Responses == { <<>>, <<"a">>, <<"a", "b">> }

\* A faulty variant of retry_if_exception_type: every exception is retried.
retry_if_any_exception(exc) == TRUE

\* retry=retry_if_exception_type(self.retry_error_types)
retry_if_exception_type(exc) == exc \in CLAUDE_RETRY_ERROR_TYPES

\* stop=stop_after_attempt(self.max_retries)
stop_after_attempt(n) == n >= self.max_retries

\* A faulty variant of wait_exponential_jitter: the result is not clamped to max.
wait_exponential_jitter_unclamped(n, jitter) ==
    WaitInitial * (WaitExpBase ^ (n - 1)) * JitterSteps + jitter

\* wait=wait_exponential_jitter(max=10), after attempt n with the jitter drawn:
\* max(0, min(initial * exp_base ** (n - 1) + jitter, max))
wait_exponential_jitter(n, jitter) ==
    LET res == WaitInitial * (WaitExpBase ^ (n - 1)) * JitterSteps + jitter
        cap == WaitMax * JitterSteps
        clamped == IF res < cap THEN res ELSE cap
    IN IF clamped > 0 THEN clamped ELSE 0

\* reraise=True: when the retryer stops, it raises the last attempt's
\* exception; without reraise it would raise RetryError.
Reraise == TRUE
retryer_raises(exc) == IF Reraise THEN exc ELSE "RetryError"

\* How generate() ends when the retryer raises exc: `except RetryError`
\* returns the empty string, any other exception leaves generate().
generate_ends(exc) ==
    IF exc = "RetryError"
    THEN [kind |-> "returned", error |-> None, text |-> <<>>]
    ELSE [kind |-> "raised", error |-> exc, text |-> <<>>]

RetryRunning == [kind |-> "running", error |-> None, text |-> <<>>]

\* The enforcer's variables while the wrapper runs.
JsonIdle ==
    /\ configuration = [model |-> "primary", model_alt |-> None,
                        model_supports_json |-> FALSE]
    /\ kwargs = [name |-> None, model |-> None,
                 is_response_valid |-> [supplied |-> FALSE, accepts |-> {}],
                 history |-> <<>>,
                 model_parameters |-> [response_format |-> None]]
    /\ jpc = "idle"
    /\ retry = 0
    /\ result = NoResult
    /\ calls = <<>>
    /\ joutcome = Running
    /\ applied = {}

\* No stream has been opened.
NoStream == [open |-> FALSE, deltas |-> <<>>]

RetryInit ==
    /\ self \in [model : {None, "claude"}, max_retries : 0..MaxRetriesBound]
    /\ call \in [streaming : BOOLEAN, callbacks : 0..1]
    /\ pc = "attempt"
    /\ attempt_number = 1
    /\ sdk_retries = 0
    /\ requests = 0
    /\ all_retryable = TRUE
    /\ waits = <<>>
    /\ last_exc = None
    /\ outcome = RetryRunning
    /\ text_stream = NoStream
    /\ tokens = <<>>
    /\ JsonIdle
    /\ NormIdle
    /\ ChainIdle
    /\ ParseIdle
    /\ ConcIdle

\* _generate raised exc inside `with attempt:`; the retryer decides: an
\* exception outside the retry types leaves at once, one inside them leaves
\* when the stop condition holds, and is followed by a wait otherwise.
AttemptFailed(exc) ==
    /\ last_exc' = exc
    /\ IF ~retry_if_exception_type(exc)
       THEN /\ pc' = "done"
            /\ outcome' = generate_ends(exc)
       ELSE IF stop_after_attempt(attempt_number)
       THEN /\ pc' = "done"
            /\ outcome' = generate_ends(retryer_raises(exc))
       ELSE /\ pc' = "sleep"
            /\ UNCHANGED outcome

\* _generate with no model: raise ValueError(_MODEL_REQUIRED_MSG), before any
\* request.
GenerateMissingModel ==
    /\ pc = "attempt"
    /\ self.model = None
    /\ AttemptFailed("ValueError")
    /\ UNCHANGED <<self, call, attempt_number, sdk_retries, requests,
                   all_retryable, waits, text_stream, tokens>>
    /\ UNCHANGED <<jvars, nvars, cvars, pvars, tvars>>

\* One physical request fails with err.  The client, built with
\* max_retries=self.max_retries, sends the request again by itself while err
\* is one it retries and it has retries left; otherwise err leaves _generate.
RequestFails(err) ==
    /\ pc = "attempt"
    /\ self.model # None
    /\ requests' = requests + 1
    /\ all_retryable' = (all_retryable /\ err \in CLAUDE_RETRY_ERROR_TYPES)
    /\ IF err \in ClientRetried /\ sdk_retries < self.max_retries
       THEN /\ sdk_retries' = sdk_retries + 1
            /\ UNCHANGED <<pc, last_exc, outcome>>
       ELSE /\ AttemptFailed(err)
            /\ UNCHANGED sdk_retries
    /\ UNCHANGED <<self, call, attempt_number, waits, text_stream, tokens>>
    /\ UNCHANGED <<jvars, nvars, cvars, pvars, tvars>>

\* One physical request succeeds with the text `deltas`.  _generate returns
\* it; in streaming mode with callbacks, the first delta reaches
\* callback.on_llm_new_token(delta), where the name delta is not defined:
\* evaluating the argument raises NameError before any callback is entered,
\* so no token is ever handed over and the accumulated text is lost.
RequestSucceeds(deltas) ==
    /\ pc = "attempt"
    /\ self.model # None
    /\ requests' = requests + 1
    /\ all_retryable' = FALSE
    /\ text_stream' = IF call.streaming
                      THEN [open |-> TRUE, deltas |-> deltas]
                      ELSE text_stream
    /\ IF call.streaming /\ call.callbacks > 0 /\ Len(deltas) > 0
       THEN AttemptFailed("NameError")
       ELSE /\ pc' = "done"
            /\ last_exc' = None
            /\ outcome' = [kind |-> "returned", error |-> None, text |-> deltas]
    /\ UNCHANGED tokens
    /\ UNCHANGED <<self, call, attempt_number, sdk_retries, waits>>
    /\ UNCHANGED <<jvars, nvars, cvars, pvars, tvars>>

\* The retryer sleeps wait_exponential_jitter(...) and starts the next attempt.
Sleep(jitter) ==
    /\ pc = "sleep"
    /\ waits' = Append(waits, wait_exponential_jitter(attempt_number, jitter))
    /\ attempt_number' = attempt_number + 1
    /\ sdk_retries' = 0
    /\ pc' = "attempt"
    /\ UNCHANGED <<self, call, requests, all_retryable, last_exc, outcome,
                   text_stream, tokens>>
    /\ UNCHANGED <<jvars, nvars, cvars, pvars, tvars>>

RetryNext ==
    \/ GenerateMissingModel
    \/ \E err \in RemoteErrors : RequestFails(err)
    \/ \E deltas \in Responses : RequestSucceeds(deltas)
    \/ \E jitter \in 0..(WaitJitter * JitterSteps) : Sleep(jitter)

SpecRetry == RetryInit /\ [][RetryNext]_vars

(***************************************************************************)
(* Claims about the retry wrapper, checked under SpecRetry.                *)
(***************************************************************************)

\* The call ended with the attempt budget consumed: the last attempt failed
\* with a retryable error and no attempt was left.
Exhausted ==
    pc = "done" /\ last_exc \in CLAUDE_RETRY_ERROR_TYPES

\* C6: when every attempt fails with a retryable error until max_retries is
\* consumed, the call returns the empty string and does not propagate the
\* error.
C6_ExhaustionReturnsEmpty ==
    Exhausted => (outcome.kind = "returned" /\ outcome.text = <<>>)

\* C7: with max_retries = N and a remote service failing every request with
\* a retryable error, exactly N physical requests reach the service and no
\* request N+1 is made.
C7_ExactlyMaxRetriesRequests ==
    (self.model # None /\ all_retryable) =>
        /\ requests <= self.max_retries
        /\ pc = "done" => requests = self.max_retries

\* An attempt ended with an exception outside the retry types.
NonRetryableFailure ==
    last_exc # None /\ last_exc \notin CLAUDE_RETRY_ERROR_TYPES

\* C8: a failure outside the retryable set ends the call at once: the error
\* reaches the caller, no wait follows it and no further attempt is made; with
\* no model name, no physical request is made.
C8_NonRetryableAbortsAtOnce ==
    /\ NonRetryableFailure =>
          /\ pc = "done"
          /\ outcome.kind = "raised"
          /\ outcome.error = last_exc
          /\ Len(waits) = attempt_number - 1
    /\ self.model = None =>
          /\ requests = 0
          /\ waits = <<>>
          /\ pc = "done" => (outcome.kind = "raised" /\ outcome.error = "ValueError")

\* C8's case: after a retried failure and its wait, an attempt failed with a
\* non-retryable error and the call ended.
C8_Witness ==
    /\ NonRetryableFailure
    /\ pc = "done"
    /\ attempt_number >= 2
    /\ requests > 0

\* C9: a call that has ended has exactly one of three outcomes: the text of
\* a successful attempt, an abort on a non-retryable error, or exhaustion
\* producing the empty string.
C9_OneOfThreeOutcomes ==
    pc = "done" =>
        \/ (last_exc = None /\ outcome.kind = "returned")
        \/ (NonRetryableFailure /\ outcome.kind = "raised"
                /\ outcome.error = last_exc)
        \/ (Exhausted /\ outcome.kind = "returned" /\ outcome.text = <<>>)

\* C10: no backoff wait exceeds the cap of 10 time-units, and the waits of
\* one call are non-decreasing, whatever the jitter.
C10_WaitsCappedAndNonDecreasing ==
    \A i \in DOMAIN waits :
        /\ waits[i] <= WaitMax * JitterSteps
        /\ i > 1 => waits[i - 1] <= waits[i]

\* C10's case: five waits were taken, the first two unclamped and increasing,
\* the fifth clamped to the cap.
C10_Witness ==
    /\ Len(waits) >= 5
    /\ waits[1] < waits[2]
    /\ waits[5] = WaitMax * JitterSteps

\* C13: in streaming mode with a model set, when the stream delivers the
\* deltas d1..dn and completes, every registered callback has received
\* each delta once, in arrival order, and the call returns d1+...+dn; for
\* an empty and for a non-empty callback list.
C13_StreamingCallbacksAndText ==
    text_stream.open =>
        /\ outcome.kind = "returned"
        /\ outcome.text = text_stream.deltas
        /\ call.callbacks > 0 => tokens = text_stream.deltas

\* The deadline of one logical call, in time-units, for the exploration.
\* generate() and agenerate() have no parameter that carries one: their
\* only notion of time is the per-request request_timeout of the client.
Deadline == 5

RECURSIVE SumSeq(_)
SumSeq(s) == IF s = <<>> THEN 0 ELSE Head(s) + SumSeq(Tail(s))

\* The time the call has spent so far, in units of 1/JitterSteps: the
\* backoff waits it has slept.  The attempts take time too, so this is a
\* lower bound of the sum of attempt durations and waits.
Elapsed == SumSeq(waits)

\* C15: the sum of all attempt durations and backoff waits of one logical
\* call never exceeds the caller's deadline, and a call that reaches the
\* deadline fails with a timeout outcome distinct from retry exhaustion.
C15_DeadlineBoundsTheCall ==
    /\ Elapsed <= Deadline * JitterSteps
    /\ (pc = "done" /\ Elapsed >= Deadline * JitterSteps) =>
           /\ outcome.kind = "raised"
           /\ outcome.error = "DeadlineExceeded"

(***************************************************************************)
(* Part 3.  The message normalizer: the system-extraction loop at the top  *)
(* of ClaudeChatLLM._execute_llm and of ChatClaude.generate / agenerate.   *)
(***************************************************************************)

\* Bounds of the exploration.
MaxTurns == 3
MaxSends == 2

Roles    == {"system", "user", "assistant"}
\* message['content']: the empty string and two non-empty texts.
Contents == {"", "a", "b"}
Turns    == [role : Roles, content : Contents]

BoundedSeq(S, n) == UNION { [1..k -> S] : k \in 0..n }

\* What the caller hands in: a list of turns (kwargs["history"], or the
\* `messages` argument of generate) or, for generate only, a plain string.
Histories ==
    [is_str : {FALSE}, turns : BoundedSeq(Turns, MaxTurns), text : {""}]

\* The texts of messages given as a plain str.
StrTexts == {"", "hello", "system: be terse"}
StrMessages == [is_str : {TRUE}, turns : {<<>>}, text : StrTexts]

\* The user input of _execute_llm.
Input == "q"

\* Python truthiness of message.get('content').
truthy(x) == x # None /\ x # ""

\* A faulty variant of extract_system that lets system turns through.
RECURSIVE extract_keeping_system(_, _, _)
extract_keeping_system(history, system_message, filtered) ==
    IF history = <<>>
    THEN [system_message |-> system_message, filtered |-> filtered]
    ELSE LET message == Head(history) IN
         extract_keeping_system(
             Tail(history),
             IF message.role = "system" THEN message.content ELSE system_message,
             Append(filtered, message))

\* for message in history:
\*     if message.get('role') == 'system': system_message = message.get('content')
\*     else: filtered.append(message)
RECURSIVE extract_system(_, _, _)
extract_system(history, system_message, filtered) ==
    IF history = <<>>
    THEN [system_message |-> system_message, filtered |-> filtered]
    ELSE LET message == Head(history) IN
         IF message.role = "system"
         THEN extract_system(Tail(history), message.content, filtered)
         ELSE extract_system(Tail(history), system_message,
                             Append(filtered, message))

\* `if system_message: args['system'] = system_message`: the keyword is
\* present only for a truthy value.
system_kwarg(system_message) ==
    IF truthy(system_message)
    THEN [passed |-> TRUE, value |-> system_message]
    ELSE [passed |-> FALSE, value |-> None]

\* ClaudeChatLLM._execute_llm: history = kwargs.get("history") or [];
\* messages = [*filtered_history, {"role": "user", "content": input}].
execute_llm_messages(m) ==
    LET x == extract_system(m.turns, None, <<>>) IN
    [messages |-> Append(x.filtered, [role |-> "user", content |-> Input]),
     system   |-> system_kwarg(x.system_message)]

\* A faulty variant of generate_messages: a plain str is sent as one user
\* turn.
generate_messages_sending_str(m) ==
    LET x == IF m.is_str
             THEN [system_message |-> None,
                   filtered |-> <<[role |-> "user", content |-> m.text]>>]
             ELSE extract_system(m.turns, None, <<>>) IN
    [messages |-> x.filtered, system |-> system_kwarg(x.system_message)]

\* ChatClaude.generate: the loop runs only `if not isinstance(messages, str)`;
\* messages = filtered_messages.
generate_messages(m) ==
    LET x == IF m.is_str
             THEN [system_message |-> None, filtered |-> <<>>]
             ELSE extract_system(m.turns, None, <<>>) IN
    [messages |-> x.filtered, system |-> system_kwarg(x.system_message)]

normalize(c, m) ==
    IF c = "ClaudeChatLLM" THEN execute_llm_messages(m) ELSE generate_messages(m)

NoRequest == [messages |-> <<>>, system |-> [passed |-> FALSE, value |-> None]]

NormInit ==
    /\ component \in {"ClaudeChatLLM", "ChatClaude"}
    /\ messages \in Histories \cup
                    (IF component = "ChatClaude" THEN StrMessages ELSE {})
    /\ npc = "normalize"
    /\ request = NoRequest
    /\ delivered = <<>>
    /\ JsonIdle
    /\ RetryIdle
    /\ ChainIdle
    /\ ParseIdle
    /\ ConcIdle

\* The prelude of the call: the extraction loop and the assembly of the
\* arguments of the client call.
Normalize ==
    /\ npc = "normalize"
    /\ request' = normalize(component, messages)
    /\ npc' = "attempt"
    /\ UNCHANGED <<component, messages, delivered>>
    /\ UNCHANGED <<jvars, rvars, cvars, pvars, tvars>>

\* One physical attempt: client.messages.create / stream receives the
\* request.  `again` says whether another attempt follows: the retryer of
\* generate() repeats the client call with the same locals, the enforcer
\* calls _execute_llm afresh.
Deliver(again) ==
    /\ npc = "attempt"
    /\ delivered' = Append(delivered, request)
    /\ npc' = IF again /\ Len(delivered') < MaxSends
              THEN (IF component = "ClaudeChatLLM" THEN "normalize" ELSE "attempt")
              ELSE "done"
    /\ UNCHANGED <<component, messages, request>>
    /\ UNCHANGED <<jvars, rvars, cvars, pvars, tvars>>

NormNext ==
    \/ Normalize
    \/ \E again \in BOOLEAN : Deliver(again)

SpecNorm == NormInit /\ [][NormNext]_vars

(***************************************************************************)
(* Claims about the message normalizer.                                    *)
(***************************************************************************)

IsSystem(m) == m.role = "system"
NotSystem(m) == m.role # "system"
HasSystem(turns) == \E i \in 1..Len(turns) : IsSystem(turns[i])
LastSystem(turns) ==
    LET i == CHOOSE k \in 1..Len(turns) :
                 /\ IsSystem(turns[k])
                 /\ \A l \in (k+1)..Len(turns) : ~IsSystem(turns[l])
    IN turns[i]

\* What the caller's turns are expected to become: the non-system turns
\* in their order (followed, in _execute_llm, by the user input).
ExpectedMessages ==
    LET rest == SelectSeq(messages.turns, NotSystem) IN
    IF component = "ClaudeChatLLM"
    THEN Append(rest, [role |-> "user", content |-> Input])
    ELSE rest

\* C11: on every physical attempt, the message list that reaches the
\* remote service client contains no turn whose role is 'system'.
C11_NoSystemTurnReachesClient ==
    \A i \in 1..Len(delivered) :
        \A k \in 1..Len(delivered[i].messages) : ~IsSystem(delivered[i].messages[k])

\* Two attempts were made for a history with system turns at the first
\* and the last position around an ordinary turn.
C11_Witness ==
    /\ Len(delivered) = MaxSends
    /\ Len(messages.turns) = 3
    /\ IsSystem(messages.turns[1])
    /\ NotSystem(messages.turns[2])
    /\ IsSystem(messages.turns[3])
    /\ delivered[MaxSends].messages # <<>>

\* C12: for every turn sequence and every content value, the remaining
\* turns are exactly the non-system turns in their original order, the
\* system instruction passed to the remote service is the content of the
\* last system-role turn, and none is passed when there is no system turn.
C12_NormalizerOutput ==
    \A i \in 1..Len(delivered) :
        /\ delivered[i].messages = ExpectedMessages
        /\ IF HasSystem(messages.turns)
           THEN /\ delivered[i].system.passed
                /\ delivered[i].system.value = LastSystem(messages.turns).content
           ELSE ~delivered[i].system.passed

(***************************************************************************)
(* Part 4.  The decorator chain built by create_claude_chat_llm            *)
(* (src/graphrag/llm/claude/factories.py) and the path of a logical call   *)
(* through it.  The layers, by the names the pipeline's description uses:  *)
(*   RateLimitingLLM               the rate limiter                        *)
(*   CachingLLM                    the cache                               *)
(*   ClaudeHistoryTrackingLLM      history tracking                        *)
(*   ClaudeTokenReplacingLLM       variable substitution                   *)
(*   JsonParsingLLM                parsing of the output of a JSON call    *)
(*   ClaudeChatLLM._invoke_json    the structured-output enforcer          *)
(*   ClaudeChatLLM._execute_llm    the base invoker                        *)
(***************************************************************************)

\* Bound of the exploration: logical calls made through one chain.
MaxCalls == 3

\* The inputs of the logical calls (equal inputs have equal cache keys).
ChainInputs == {"p", "q"}

\* What create_claude_chat_llm is given: limiter, semaphore and cache, each
\* supplied or None.
Dependencies == [limiter : BOOLEAN, semaphore : BOOLEAN, cache : BOOLEAN]

\* A decorator around a delegate, as the list of layers from the outside in.
Wrap(layer, delegate) == <<layer>> \o delegate

\* _rate_limited(result, ...): RateLimitingLLM(delegate, ...)
rate_limited(delegate) == Wrap("RateLimitingLLM", delegate)

\* _cached(result, ...): CachingLLM(delegate, ...)
cached(delegate) == Wrap("CachingLLM", delegate)

\* A faulty variant of create_claude_chat_llm: the cache applied first and
\* the rate limiter around it, and both around the other decorators.
create_limiter_outermost(d) ==
    LET chat    == <<"ClaudeChatLLM">>
        tokens_ == Wrap("ClaudeTokenReplacingLLM", chat)
        history == Wrap("ClaudeHistoryTrackingLLM", tokens_)
        parsing == Wrap("JsonParsingLLM", history)
        with_cache == IF d.cache THEN cached(parsing) ELSE parsing
    IN IF d.limiter \/ d.semaphore THEN rate_limited(with_cache) ELSE with_cache

\* create_claude_chat_llm(client, config, cache, limiter, semaphore, ...)
create_claude_chat_llm(d) ==
    LET chat    == <<"ClaudeChatLLM">>
        limited == IF d.limiter \/ d.semaphore THEN rate_limited(chat) ELSE chat
        cached_ == IF d.cache THEN cached(limited) ELSE limited
        history == Wrap("ClaudeHistoryTrackingLLM", cached_)
        tokens_ == Wrap("ClaudeTokenReplacingLLM", history)
    IN Wrap("JsonParsingLLM", tokens_)

\* The layers a call passes when no layer answers it early: the decorators
\* of the chain, then inside ClaudeChatLLM the enforcer _invoke_json (for a
\* call with json=True) and the base invoker _execute_llm.
path(layers, json) ==
    SubSeq(layers, 1, Len(layers) - 1)
        \o (IF json THEN <<"ClaudeChatLLM._invoke_json">> ELSE <<>>)
        \o <<"ClaudeChatLLM._execute_llm">>

NoInvocation == [input |-> None, json |-> FALSE]

ChainInit ==
    /\ deps \in Dependencies
    /\ chain = create_claude_chat_llm(deps)
    /\ store = {}
    /\ invocation = NoInvocation
    /\ trace = <<>>
    /\ cache_hit = FALSE
    /\ cpc = "idle"
    /\ served = 0
    /\ JsonIdle
    /\ RetryIdle
    /\ NormIdle
    /\ ParseIdle
    /\ ConcIdle

\* The layer the call enters next.
NextLayer == path(chain, invocation.json)[Len(trace) + 1]

\* A caller invokes the chain.
StartCall(input, json) ==
    /\ cpc = "idle"
    /\ served < MaxCalls
    /\ invocation' = [input |-> input, json |-> json]
    /\ trace' = <<>>
    /\ cache_hit' = FALSE
    /\ cpc' = "enter"
    /\ UNCHANGED <<deps, chain, store, served>>
    /\ UNCHANGED <<jvars, rvars, nvars, pvars, tvars>>

\* The call enters a decorator that always delegates: JsonParsingLLM,
\* ClaudeTokenReplacingLLM, ClaudeHistoryTrackingLLM, RateLimitingLLM (after
\* its acquire), and the enforcer inside ClaudeChatLLM.
EnterLayer ==
    /\ cpc = "enter"
    /\ NextLayer \notin {"CachingLLM", "ClaudeChatLLM._execute_llm"}
    /\ trace' = Append(trace, NextLayer)
    /\ UNCHANGED <<deps, chain, store, invocation, cache_hit, cpc, served>>
    /\ UNCHANGED <<jvars, rvars, nvars, pvars, tvars>>

\* The call enters CachingLLM: a result stored under the call's key answers
\* the call here, otherwise the call goes on to the delegate.
CacheLookup ==
    /\ cpc = "enter"
    /\ NextLayer = "CachingLLM"
    /\ trace' = Append(trace, NextLayer)
    /\ cache_hit' = (invocation.input \in store)
    /\ cpc' = IF invocation.input \in store THEN "done" ELSE "enter"
    /\ UNCHANGED <<deps, chain, store, invocation, served>>
    /\ UNCHANGED <<jvars, rvars, nvars, pvars, tvars>>

\* The call reaches the base invoker; the result travels back through the
\* layers, and CachingLLM (when in the chain) stores an output that is not
\* None.
ExecuteLlm(has_output) ==
    /\ cpc = "enter"
    /\ NextLayer = "ClaudeChatLLM._execute_llm"
    /\ trace' = Append(trace, NextLayer)
    /\ store' = IF deps.cache /\ has_output
                THEN store \cup {invocation.input} ELSE store
    /\ cpc' = "done"
    /\ UNCHANGED <<deps, chain, invocation, cache_hit, served>>
    /\ UNCHANGED <<jvars, rvars, nvars, pvars, tvars>>

\* The result reaches the caller.
ReturnToCaller ==
    /\ cpc = "done"
    /\ served' = served + 1
    /\ cpc' = "idle"
    /\ UNCHANGED <<deps, chain, store, invocation, trace, cache_hit>>
    /\ UNCHANGED <<jvars, rvars, nvars, pvars, tvars>>

ChainNext ==
    \/ \E input \in ChainInputs, json \in BOOLEAN : StartCall(input, json)
    \/ EnterLayer
    \/ CacheLookup
    \/ \E has_output \in BOOLEAN : ExecuteLlm(has_output)
    \/ ReturnToCaller

SpecChain == ChainInit /\ [][ChainNext]_vars

(***************************************************************************)
(* Claims about the decorator chain.                                       *)
(***************************************************************************)

IsPrefix(s, t) == Len(s) <= Len(t) /\ s = SubSeq(t, 1, Len(s))

\* The position of layer in the sequence s, 0 when it is not there.
Position(layer, s) ==
    IF \E i \in 1..Len(s) : s[i] = layer
    THEN CHOOSE i \in 1..Len(s) : s[i] = layer
    ELSE 0

\* The order the pipeline's description gives, outer to inner.
ReferenceOrder ==
    <<"RateLimitingLLM", "CachingLLM", "ClaudeChatLLM._invoke_json",
      "ClaudeHistoryTrackingLLM", "ClaudeTokenReplacingLLM",
      "ClaudeChatLLM._execute_llm">>

\* The order create_claude_chat_llm builds, outer to inner, for a call with
\* json=True.
FactoryOrder ==
    <<"JsonParsingLLM", "ClaudeTokenReplacingLLM", "ClaudeHistoryTrackingLLM",
      "CachingLLM", "RateLimitingLLM", "ClaudeChatLLM._invoke_json",
      "ClaudeChatLLM._execute_llm">>

\* A JSON call through a chain built with both a limiter and a cache.
LimitedCachedCall == deps.limiter /\ deps.cache /\ invocation.json

InReferenceOrder(layer) == Position(layer, ReferenceOrder) > 0

\* C16 as stated: every such call passes the layers in the reference order
\* (rate limiter, cache, enforcer, history tracking, variable substitution,
\* base invoker), the rate limiter before the cache lookup on every call,
\* calls answered from the cache included.
C16_ReferenceOrder ==
    LimitedCachedCall =>
        /\ IsPrefix(SelectSeq(trace, InReferenceOrder), ReferenceOrder)
        /\ Position("CachingLLM", trace) > 0 =>
              /\ Position("RateLimitingLLM", trace) > 0
              /\ Position("RateLimitingLLM", trace)
                     < Position("CachingLLM", trace)

\* C16 amended: every such call passes the layers in the order JSON
\* parsing, variable substitution, history tracking, cache, rate limiter,
\* enforcer, base invoker; a call answered from the cache ends at the cache
\* and never enters the rate limiter, every other call passes all of them.
C16_FactoryOrder ==
    LimitedCachedCall =>
        /\ IsPrefix(trace, FactoryOrder)
        /\ cpc = "done" =>
              IF cache_hit
              THEN /\ trace = SubSeq(FactoryOrder, 1, 4)
                   /\ Position("RateLimitingLLM", trace) = 0
              ELSE trace = FactoryOrder

\* A call was answered from the cache, after an earlier call that was not.
C16_Witness ==
    /\ LimitedCachedCall
    /\ cpc = "done"
    /\ cache_hit
    /\ served >= 1
    /\ trace[Len(trace)] = "CachingLLM"

(***************************************************************************)
(* Part 5.  The JSON recovery parser (src/graphrag/llm/openai/_json.py):   *)
(* clean_up_json, extract_json_object, fix_json_structure, and the calls   *)
(* they make to json.loads, json.dumps, str.replace and re.  A text is a   *)
(* sequence of characters; a character is a string of length one, or one   *)
(* of the names below.                                                     *)
(***************************************************************************)

QUOTE     == "\""
BACKSLASH == "\\"
NEWLINE   == "\n"
RETURN    == "\r"
TAB       == "\t"
SPACE     == " "
\* The backquote of a Markdown fence (a string cannot hold the character).
BACKQUOTE == "'"
\* The characters json.loads decodes \b and \f to.
BACKSPACE == "<BS>"
FORMFEED  == "<FF>"

\* What str.strip() removes and what \s matches.
Whitespace == {SPACE, NEWLINE, RETURN, TAB, FORMFEED}
\* What json.loads skips between tokens.
JsonWhitespace == {SPACE, NEWLINE, RETURN, TAB}
\* What json.loads refuses inside a string (strict mode).
ControlChars == {NEWLINE, RETURN, TAB, BACKSPACE, FORMFEED}
Digits == {"0", "1", "2", "3", "4", "5", "6", "7", "8", "9"}

\* str.replace(old, new): the first occurrence of old is replaced and the
\* search goes on after it.
RECURSIVE replace(_, _, _)
replace(s, old, new) ==
    LET found == { i \in 1..(Len(s) - Len(old) + 1) :
                      SubSeq(s, i, i + Len(old) - 1) = old } IN
    IF found = {} THEN s
    ELSE LET i == CHOOSE k \in found : \A l \in found : k <= l IN
         SubSeq(s, 1, i - 1) \o new
             \o replace(SubSeq(s, i + Len(old), Len(s)), old, new)

RECURSIVE lstrip(_)
lstrip(s) ==
    IF Len(s) > 0 /\ Head(s) \in Whitespace THEN lstrip(Tail(s)) ELSE s

RECURSIVE rstrip(_)
rstrip(s) ==
    IF Len(s) > 0 /\ s[Len(s)] \in Whitespace
    THEN rstrip(SubSeq(s, 1, Len(s) - 1)) ELSE s

\* str.strip()
strip(s) == rstrip(lstrip(s))

startswith(s, prefix) ==
    Len(prefix) <= Len(s) /\ SubSeq(s, 1, Len(prefix)) = prefix

endswith(s, suffix) ==
    Len(suffix) <= Len(s)
        /\ SubSeq(s, Len(s) - Len(suffix) + 1, Len(s)) = suffix

\* The text at position i is word.
matches(s, i, word) ==
    i + Len(word) - 1 <= Len(s) /\ SubSeq(s, i, i + Len(word) - 1) = word

(***************************************************************************)
(* json.loads.  A value is a pair <<kind, payload>>:                       *)
(*   <<"obj", pairs>>   a dict, pairs a sequence of <<key, value>>         *)
(*   <<"arr", items>>   a list                                             *)
(*   <<"str", chars>>   a string, decoded                                  *)
(*   <<"num", digits>>  an integer                                         *)
(*   <<"true", <<>>>>, <<"false", <<>>>>, <<"null", <<>>>>                 *)
(* The texts explored hold no sign, fraction, exponent, \u escape or       *)
(* NaN / Infinity.                                                         *)
(***************************************************************************)

NoValue == <<"none", <<>>>>
\* json.JSONDecodeError
ParseFail == [ok |-> FALSE, val |-> NoValue, pos |-> 0]
\* The value v, and the position after it.
ParseOk(v, p) == [ok |-> TRUE, val |-> v, pos |-> p]

RECURSIVE skip_ws(_, _)
skip_ws(s, i) ==
    IF i <= Len(s) /\ s[i] \in JsonWhitespace THEN skip_ws(s, i + 1) ELSE i

EscapeLetters == {QUOTE, BACKSLASH, "/", "b", "f", "n", "r", "t"}

unescape(c) ==
    CASE c = "b" -> BACKSPACE
      [] c = "f" -> FORMFEED
      [] c = "n" -> NEWLINE
      [] c = "r" -> RETURN
      [] c = "t" -> TAB
      [] OTHER   -> c

\* The string whose opening quote precedes position i.
RECURSIVE scan_string(_, _, _)
scan_string(s, i, acc) ==
    IF i > Len(s) THEN ParseFail
    ELSE IF s[i] = QUOTE THEN ParseOk(<<"str", acc>>, i + 1)
    ELSE IF s[i] = BACKSLASH
    THEN IF i + 1 <= Len(s) /\ s[i + 1] \in EscapeLetters
         THEN scan_string(s, i + 2, Append(acc, unescape(s[i + 1])))
         ELSE ParseFail
    ELSE IF s[i] \in ControlChars THEN ParseFail
    ELSE scan_string(s, i + 1, Append(acc, s[i]))

RECURSIVE scan_digits(_, _, _)
scan_digits(s, i, acc) ==
    IF i <= Len(s) /\ s[i] \in Digits
    THEN scan_digits(s, i + 1, Append(acc, s[i]))
    ELSE ParseOk(<<"num", acc>>, i)

\* An integer: 0, or a non-zero digit and more digits.
scan_number(s, i) ==
    IF s[i] = "0" THEN ParseOk(<<"num", <<"0">>>>, i + 1)
    ELSE scan_digits(s, i, <<>>)

\* dict[key] = value: a repeated key keeps its place and takes the new value.
RECURSIVE put(_, _, _)
put(pairs, key, value) ==
    IF Len(pairs) = 0 THEN << <<key, value>> >>
    ELSE IF Head(pairs)[1] = key THEN << <<key, value>> >> \o Tail(pairs)
    ELSE <<Head(pairs)>> \o put(Tail(pairs), key, value)

RECURSIVE scan_once(_, _)
RECURSIVE scan_members(_, _, _)
RECURSIVE scan_elements(_, _, _)

\* The members of an object from position i, where a key has to start.
scan_members(s, i, pairs) ==
    IF i > Len(s) \/ s[i] # QUOTE THEN ParseFail
    ELSE LET k == scan_string(s, i + 1, <<>>) IN
    IF ~k.ok THEN ParseFail
    ELSE LET c == skip_ws(s, k.pos) IN
    IF c > Len(s) \/ s[c] # ":" THEN ParseFail
    ELSE LET v == scan_once(s, skip_ws(s, c + 1)) IN
    IF ~v.ok THEN ParseFail
    ELSE LET e == skip_ws(s, v.pos)
             ps == put(pairs, k.val[2], v.val) IN
    IF e > Len(s) THEN ParseFail
    ELSE IF s[e] = "}" THEN ParseOk(<<"obj", ps>>, e + 1)
    ELSE IF s[e] = "," THEN scan_members(s, skip_ws(s, e + 1), ps)
    ELSE ParseFail

\* The elements of an array from position i, where a value has to start.
scan_elements(s, i, items) ==
    LET v == scan_once(s, i) IN
    IF ~v.ok THEN ParseFail
    ELSE LET e == skip_ws(s, v.pos)
             xs == Append(items, v.val) IN
    IF e > Len(s) THEN ParseFail
    ELSE IF s[e] = "]" THEN ParseOk(<<"arr", xs>>, e + 1)
    ELSE IF s[e] = "," THEN scan_elements(s, skip_ws(s, e + 1), xs)
    ELSE ParseFail

\* The value that starts at position i.
scan_once(s, i) ==
    IF i > Len(s) THEN ParseFail
    ELSE IF s[i] = QUOTE THEN scan_string(s, i + 1, <<>>)
    ELSE IF s[i] = "{"
    THEN LET j == skip_ws(s, i + 1) IN
         IF j <= Len(s) /\ s[j] = "}" THEN ParseOk(<<"obj", <<>>>>, j + 1)
         ELSE scan_members(s, j, <<>>)
    ELSE IF s[i] = "["
    THEN LET j == skip_ws(s, i + 1) IN
         IF j <= Len(s) /\ s[j] = "]" THEN ParseOk(<<"arr", <<>>>>, j + 1)
         ELSE scan_elements(s, j, <<>>)
    ELSE IF s[i] \in Digits THEN scan_number(s, i)
    ELSE IF matches(s, i, <<"t", "r", "u", "e">>)
    THEN ParseOk(<<"true", <<>>>>, i + 4)
    ELSE IF matches(s, i, <<"f", "a", "l", "s", "e">>)
    THEN ParseOk(<<"false", <<>>>>, i + 5)
    ELSE IF matches(s, i, <<"n", "u", "l", "l">>)
    THEN ParseOk(<<"null", <<>>>>, i + 4)
    ELSE ParseFail

\* json.loads(s): one value, with whitespace around it and nothing else.
json_loads_text(s) ==
    LET v == scan_once(s, skip_ws(s, 1)) IN
    IF v.ok /\ skip_ws(s, v.pos) > Len(s) THEN v ELSE ParseFail

(***************************************************************************)
(* json.dumps, with its default separators ", " and ": ".                  *)
(***************************************************************************)

escape_char(c) ==
    CASE c = QUOTE     -> <<BACKSLASH, QUOTE>>
      [] c = BACKSLASH -> <<BACKSLASH, BACKSLASH>>
      [] c = NEWLINE   -> <<BACKSLASH, "n">>
      [] c = RETURN    -> <<BACKSLASH, "r">>
      [] c = TAB       -> <<BACKSLASH, "t">>
      [] c = BACKSPACE -> <<BACKSLASH, "b">>
      [] c = FORMFEED  -> <<BACKSLASH, "f">>
      [] OTHER         -> <<c>>

RECURSIVE encode_string(_)
encode_string(chars) ==
    IF Len(chars) = 0 THEN <<>>
    ELSE escape_char(Head(chars)) \o encode_string(Tail(chars))

RECURSIVE json_dumps(_)
RECURSIVE dumps_items(_)
RECURSIVE dumps_pairs(_)

dumps_items(items) ==
    IF Len(items) = 0 THEN <<>>
    ELSE json_dumps(Head(items))
            \o (IF Len(items) = 1 THEN <<>>
                ELSE <<",", SPACE>> \o dumps_items(Tail(items)))

dumps_pairs(pairs) ==
    IF Len(pairs) = 0 THEN <<>>
    ELSE <<QUOTE>> \o encode_string(Head(pairs)[1]) \o <<QUOTE, ":", SPACE>>
            \o json_dumps(Head(pairs)[2])
            \o (IF Len(pairs) = 1 THEN <<>>
                ELSE <<",", SPACE>> \o dumps_pairs(Tail(pairs)))

json_dumps(v) ==
    CASE v[1] = "obj"   -> <<"{">> \o dumps_pairs(v[2]) \o <<"}">>
      [] v[1] = "arr"   -> <<"[">> \o dumps_items(v[2]) \o <<"]">>
      [] v[1] = "str"   -> <<QUOTE>> \o encode_string(v[2]) \o <<QUOTE>>
      [] v[1] = "num"   -> v[2]
      [] v[1] = "true"  -> <<"t", "r", "u", "e">>
      [] v[1] = "false" -> <<"f", "a", "l", "s", "e">>
      [] v[1] = "null"  -> <<"n", "u", "l", "l">>

(***************************************************************************)
(* fix_json_structure                                                      *)
(***************************************************************************)

\* re.sub(r'}\s*{', '},{', json_str)
RECURSIVE skip_space(_, _)
skip_space(s, i) ==
    IF i <= Len(s) /\ s[i] \in Whitespace THEN skip_space(s, i + 1) ELSE i

RECURSIVE sub_missing_commas(_, _)
sub_missing_commas(s, i) ==
    IF i > Len(s) THEN <<>>
    ELSE LET j == skip_space(s, i + 1) IN
         IF s[i] = "}" /\ j <= Len(s) /\ s[j] = "{"
         THEN <<"}", ",", "{">> \o sub_missing_commas(s, j + 1)
         ELSE <<s[i]>> \o sub_missing_commas(s, i + 1)

\* m.group(1).replace('"', '\\"')
escape_quotes(s) == replace(s, <<QUOTE>>, <<BACKSLASH, QUOTE>>)

\* (?<=: "): the three characters before position p are `: "`.
after_colon_quote(s, p) ==
    p >= 4 /\ s[p - 3] = ":" /\ s[p - 2] = SPACE /\ s[p - 1] = QUOTE

\* (.+?)(?="[,}]) from position p: the end q of the shortest run of
\* characters other than a newline that `",` or `"}` follows, 0 if none.
RECURSIVE lazy_end(_, _)
lazy_end(s, q) ==
    IF q + 2 > Len(s) \/ s[q] = NEWLINE THEN 0
    ELSE IF s[q + 1] = QUOTE /\ s[q + 2] \in {",", "}"} THEN q
    ELSE lazy_end(s, q + 1)

\* re.sub(r'(?<=: ")(.+?)(?="[,}])', escape, json_str): the text from
\* position i on, the search for the next match starting at position p.
RECURSIVE sub_unescaped_quotes(_, _, _)
sub_unescaped_quotes(s, i, p) ==
    IF p > Len(s) THEN SubSeq(s, i, Len(s))
    ELSE LET q == IF after_colon_quote(s, p) THEN lazy_end(s, p) ELSE 0 IN
         IF q > 0
         THEN SubSeq(s, i, p - 1) \o escape_quotes(SubSeq(s, p, q))
                  \o sub_unescaped_quotes(s, q + 1, q + 1)
         ELSE sub_unescaped_quotes(s, i, p + 1)

fix_json_structure(json_str) ==
    sub_unescaped_quotes(sub_missing_commas(json_str, 1), 1, 1)

(***************************************************************************)
(* extract_json_object                                                     *)
(***************************************************************************)

\* The depth of braces the pattern
\*     \{(?:[^{}]|\{(?:[^{}]|\{[^{}]*\})*\})*\}
\* can match.
PatternDepth == 3

\* The pattern from inside a group opened at the given depth, at position
\* j: the position of the brace that closes the group, 0 when the pattern
\* does not match.  A character other than a brace is consumed, an inner
\* group has to match in full and is not allowed beyond PatternDepth, and
\* the first closing brace at the group's level ends it.
RECURSIVE match_group(_, _, _)
match_group(s, j, depth) ==
    IF j > Len(s) THEN 0
    ELSE IF s[j] = "}" THEN j
    ELSE IF s[j] = "{"
    THEN IF depth < PatternDepth
         THEN LET e == match_group(s, j + 1, depth + 1) IN
              IF e = 0 THEN 0 ELSE match_group(s, e + 1, depth)
         ELSE 0
    ELSE match_group(s, j + 1, depth)

\* re.search(json_pattern, raw_str, re.DOTALL): the leftmost match.
re_search(s) ==
    LET starts == {i \in 1..Len(s) :
                      s[i] = "{" /\ match_group(s, i + 1, 1) > 0} IN
    IF starts = {} THEN [found |-> FALSE, group |-> <<>>]
    ELSE LET i == CHOOSE k \in starts : \A l \in starts : k <= l IN
         [found |-> TRUE, group |-> SubSeq(s, i, match_group(s, i + 1, 1))]

\* extract_json_object returning None
NoObject == [found |-> FALSE, obj |-> NoValue]

extract_json_object(raw_str) ==
    LET json_match == re_search(raw_str) IN
    IF ~json_match.found THEN NoObject
    ELSE LET json_str == json_match.group
             first == json_loads_text(json_str) IN
         IF first.ok THEN [found |-> TRUE, obj |-> first.val]
         ELSE LET second == json_loads_text(fix_json_structure(json_str)) IN
              IF second.ok THEN [found |-> TRUE, obj |-> second.val]
              ELSE NoObject

(***************************************************************************)
(* clean_up_json                                                           *)
(***************************************************************************)

FenceOpen  == <<BACKQUOTE, BACKQUOTE, BACKQUOTE, "j", "s", "o", "n">>
FenceTag   == <<"j", "s", "o", "n">>
FenceClose == <<BACKQUOTE, BACKQUOTE, BACKQUOTE>>

\* The chain of replace() calls and strip().
strip_escapes(json_str) ==
    LET r1 == replace(json_str, <<BACKSLASH, "n">>, <<>>)
        r2 == replace(r1, <<NEWLINE>>, <<>>)
        r3 == replace(r2, <<RETURN>>, <<>>)
        r4 == replace(r3, <<QUOTE, "[", "{">>, <<"[", "{">>)
        r5 == replace(r4, <<"}", "]", QUOTE>>, <<"}", "]">>)
        r6 == replace(r5, <<BACKSLASH>>, <<>>)
    IN strip(r6)

\* Remove JSON Markdown Frame
remove_frame(json_str) ==
    LET a == IF startswith(json_str, FenceOpen)
             THEN SubSeq(json_str, Len(FenceOpen) + 1, Len(json_str))
             ELSE json_str
        b == IF startswith(a, FenceTag)
             THEN SubSeq(a, Len(FenceTag) + 1, Len(a)) ELSE a
    IN IF endswith(b, FenceClose)
       THEN SubSeq(b, 1, Len(b) - Len(FenceClose)) ELSE b

clean_up_json_text(json_str) ==
    LET cleaned_ == remove_frame(strip_escapes(json_str)) IN
    IF json_loads_text(cleaned_).ok THEN cleaned_
    ELSE LET json_obj == extract_json_object(cleaned_) IN
         IF json_obj.found THEN json_dumps(json_obj.obj) ELSE cleaned_

\* utils.try_parse_json_object: json.loads, and a TypeError for a value
\* that is not a dict.
try_parse_json_object_text(input) ==
    LET v == json_loads_text(input) IN
    IF ~v.ok THEN [exc |-> "JSONDecodeError", val |-> NoValue]
    ELSE IF v.val[1] # "obj" THEN [exc |-> "TypeError", val |-> NoValue]
    ELSE [exc |-> None, val |-> v.val]

\* A faulty variant of manual_json_text: the parse error is not caught.
manual_json_uncaught(output) ==
    LET text_ == clean_up_json_text(output)
        p == try_parse_json_object_text(text_)
    IN [output |-> text_, parsed |-> p.exc = None, json |-> p.val,
        exc |-> p.exc]

\* ClaudeChatLLM._manual_json on the text of a response: json is the parsed
\* dict, or the empty string (parsed |-> FALSE) after a caught parse error.
manual_json_text(output) ==
    LET text_ == clean_up_json_text(output)
        p == try_parse_json_object_text(text_)
    IN IF p.exc = None
       THEN [output |-> text_, parsed |-> TRUE, json |-> p.val, exc |-> None]
       ELSE [output |-> <<>>, parsed |-> FALSE, json |-> NoValue, exc |-> None]

(***************************************************************************)
(* The texts explored.                                                     *)
(***************************************************************************)

JStr(body) == <<QUOTE>> \o body \o <<QUOTE>>

\* {"key":value} with the whitespace gap around the tokens.
Object(key, gap, value) ==
    <<"{">> \o gap \o JStr(key) \o <<":">> \o gap \o value \o gap \o <<"}">>

\* Whitespace between tokens: none, a space, a newline.
Gaps == { <<>>, <<SPACE>>, <<NEWLINE>> }

\* The insides of JSON strings: plain, with an escaped quote, with an
\* escaped newline, with an escaped backslash.
StringBodies ==
    { <<"x">>,
      <<"x", BACKSLASH, QUOTE, "y">>,
      <<"x", BACKSLASH, "n", "y">>,
      <<"x", BACKSLASH, BACKSLASH>> }

Scalars == { <<"1">> } \cup { JStr(b) : b \in StringBodies }

\* {"a":1} and {"b":2}
SimpleObjects == { Object(<<"a">>, <<>>, <<"1">>), Object(<<"b">>, <<>>, <<"2">>) }

Values ==
    Scalars
    \cup { Object(<<"b">>, <<>>, <<"2">>),
           Object(<<"b">>, <<>>, Object(<<"c">>, <<>>, <<"2">>)),
           <<"[", "1", ",", "2", "]">> }

\* Valid JSON objects with the key "a".
Objects == { Object(<<"a">>, g, v) : g \in Gaps, v \in Values }

\* Valid JSON texts that are not objects.
OtherJson ==
    { g \o v \o g : g \in Gaps, v \in { <<"1">>, JStr(<<"x">>) } }
    \cup { <<"[", "1", "]">> }

ValidJsonTexts == Objects \cup OtherJson

\* Texts that hold no JSON object.
NoObjectTexts ==
    { <<"n", "o", " ", "j", "s", "o", "n", " ", "h", "e", "r", "e", " ",
        "a", "t", " ", "a", "l", "l">>,
      <<>>,
      <<"{">>,
      <<"}", "{">>,
      <<"a", "}">>,
      <<"[", "1">>,
      <<"n", "o", NEWLINE, "j", "s", "o", "n">>,
      <<"j", "s", "o", "n">>,
      FenceOpen \o FenceClose,
      <<BACKSLASH, "n">> }

\* Two objects side by side, with no comma between them.
AdjacentObjects ==
    { o1 \o g \o o2 : o1 \in SimpleObjects, o2 \in SimpleObjects, g \in Gaps }

\* "Sure: "
Prose == <<"S", "u", "r", "e", ":", " ">>

\* An object in a fence tagged json, after the prose, newlines around it.
Fenced(object) ==
    Prose \o FenceOpen \o <<NEWLINE>> \o object \o <<NEWLINE>> \o FenceClose

FencedObjects == { Fenced(o) : o \in Objects }

Texts == ValidJsonTexts \cup NoObjectTexts \cup AdjacentObjects
             \cup FencedObjects

NotCalled == [done |-> FALSE, text |-> <<>>]
NotExtracted == [done |-> FALSE, result |-> NoObject]
NotParsed ==
    [done |-> FALSE,
     result |-> [output |-> <<>>, parsed |-> FALSE, json |-> NoValue,
                 exc |-> None]]

ParseInit ==
    /\ input_text \in Texts
    /\ cleaned = NotCalled
    /\ recleaned = NotCalled
    /\ extracted = NotExtracted
    /\ manual = NotParsed
    /\ JsonIdle
    /\ RetryIdle
    /\ NormIdle
    /\ ChainIdle
    /\ ConcIdle

\* clean_up_json(input_text)
CleanUpJson ==
    /\ ~cleaned.done
    /\ cleaned' = [done |-> TRUE, text |-> clean_up_json_text(input_text)]
    /\ UNCHANGED <<input_text, recleaned, extracted, manual>>
    /\ UNCHANGED <<jvars, rvars, nvars, cvars, tvars>>

\* clean_up_json applied to its own output
CleanUpJsonAgain ==
    /\ cleaned.done
    /\ ~recleaned.done
    /\ recleaned' = [done |-> TRUE, text |-> clean_up_json_text(cleaned.text)]
    /\ UNCHANGED <<input_text, cleaned, extracted, manual>>
    /\ UNCHANGED <<jvars, rvars, nvars, cvars, tvars>>

\* extract_json_object(input_text)
ExtractJsonObject ==
    /\ ~extracted.done
    /\ extracted' = [done |-> TRUE, result |-> extract_json_object(input_text)]
    /\ UNCHANGED <<input_text, cleaned, recleaned, manual>>
    /\ UNCHANGED <<jvars, rvars, nvars, cvars, tvars>>

\* _manual_json on a response whose text is input_text
ManualJson ==
    /\ ~manual.done
    /\ manual' = [done |-> TRUE, result |-> manual_json_text(input_text)]
    /\ UNCHANGED <<input_text, cleaned, recleaned, extracted>>
    /\ UNCHANGED <<jvars, rvars, nvars, cvars, tvars>>

ParseNext ==
    \/ CleanUpJson
    \/ CleanUpJsonAgain
    \/ ExtractJsonObject
    \/ ManualJson

SpecParse == ParseInit /\ [][ParseNext]_vars

(***************************************************************************)
(* Claims about the JSON recovery parser.                                  *)
(***************************************************************************)

\* The text without the whitespace that JSON ignores: whitespace outside
\* strings.
RECURSIVE compact(_, _, _)
compact(s, in_string, escaped) ==
    IF Len(s) = 0 THEN <<>>
    ELSE LET c == Head(s) IN
         IF in_string
         THEN <<c>> \o compact(Tail(s),
                               escaped \/ c # QUOTE,
                               ~escaped /\ c = BACKSLASH)
         ELSE IF c \in JsonWhitespace THEN compact(Tail(s), FALSE, FALSE)
         ELSE <<c>> \o compact(Tail(s), c = QUOTE, FALSE)

\* C17: clean_up_json applied to a text that is valid JSON returns the
\* text unchanged up to whitespace normalization, and clean_up_json applied
\* to that output returns the same output.
C17_ValidJsonUnchanged ==
    json_loads_text(input_text).ok =>
        /\ cleaned.done =>
              compact(cleaned.text, FALSE, FALSE)
                  = compact(input_text, FALSE, FALSE)
        /\ recleaned.done => recleaned.text = cleaned.text

\* The text has an opening brace with a closing brace after it.
HasBracePair(s) ==
    \E i \in 1..Len(s) : \E j \in (i + 1)..Len(s) : s[i] = "{" /\ s[j] = "}"

\* C18: for a text that holds no JSON object, extract_json_object
\* returns None, clean_up_json returns a text that is not a JSON object,
\* neither raises, and the manual branch of the enforcer ends the attempt
\* with the empty output and the empty json instead of an error.
C18_NoObjectIsReportedNotRaised ==
    ~HasBracePair(input_text) =>
        /\ extracted.done => extracted.result = NoObject
        /\ cleaned.done =>
              try_parse_json_object_text(cleaned.text).exc # None
        /\ manual.done =>
              /\ manual.result.exc = None
              /\ ~manual.result.parsed
              /\ manual.result.output = <<>>

\* 'no json here at all' went through all three.
C18_Witness ==
    /\ Len(input_text) = 19
    /\ ~HasBracePair(input_text)
    /\ extracted.done
    /\ cleaned.done
    /\ manual.done

\* The parsed value p holds both objects: a list of the two, or one object
\* with the members of both.
RetainsBoth(p, o1, o2) ==
    LET v1 == json_loads_text(o1).val
        v2 == json_loads_text(o2).val
    IN /\ p.ok
       /\ \/ p.val[1] = "arr" /\ p.val[2] = <<v1, v2>>
          \/ /\ p.val[1] = "obj"
             /\ \A m \in 1..Len(v1[2]) :
                   \E n \in 1..Len(p.val[2]) : p.val[2][n] = v1[2][m]
             /\ \A m \in 1..Len(v2[2]) :
                   \E n \in 1..Len(p.val[2]) : p.val[2][n] = v2[2][m]

\* C19: for two adjacent JSON objects with no comma between them, the
\* parser does not report a failure and its result retains both objects.
C19_AdjacentObjectsBothRetained ==
    \A o1 \in SimpleObjects : \A o2 \in SimpleObjects \ {o1}, g \in Gaps :
        input_text = o1 \o g \o o2 =>
            /\ cleaned.done =>
                  RetainsBoth(json_loads_text(cleaned.text), o1, o2)
            /\ extracted.done =>
                  /\ extracted.result.found
                  /\ RetainsBoth(ParseOk(extracted.result.obj, 0), o1, o2)

\* C20: for one valid JSON object after leading prose, in a fence tagged
\* json with newlines around the object, clean_up_json returns JSON text
\* whose parsed value is the object's.
C20_FencedObjectRecovered ==
    \A o \in Objects :
        (input_text = Fenced(o) /\ cleaned.done) =>
            LET p == json_loads_text(cleaned.text) IN
            /\ p.ok
            /\ p.val = json_loads_text(o).val

(***************************************************************************)
(* Part 6.  Logical calls running concurrently on one instance: several    *)
(* coroutines of ClaudeChatLLM._invoke_json on one ClaudeChatLLM, or of    *)
(* ChatClaude.agenerate on one ChatClaude.  A coroutine runs without       *)
(* interruption from one suspension point to the next; the suspension      *)
(* points are the awaited client calls, each delta of a stream and the     *)
(* sleep of the retryer.  The instance (configuration, self.model,         *)
(* self.max_retries) is read and never assigned by a call; the locals of a *)
(* call live in the call's own frame.                                      *)
(***************************************************************************)

\* Bounds of the exploration: the calls in progress together, and the
\* deltas of one stream.
NCalls == 2
MaxDeltas == 2

Calls == 1..NCalls
Methods == {"_invoke_json", "agenerate"}

\* The texts of the deltas of a stream, and the text of a response that is
\* not streamed.
DeltaTexts == {"a"}
ConcTexts == {"a"}

\* The errors the client call raises: one the retryer of agenerate retries
\* and one it does not.
ConcErrors == {"RateLimitError", "BadRequestError"}

\* The responses explored for _invoke_json: one that parses to a value the
\* caller's predicate accepts, one that parses to a value it rejects, one
\* that does not parse.
ConcOutputs == { "{\"a\":1}", "{\"b\":2}", "no json" }

\* The locals of a call at its entry.  attempt is `retry` in _invoke_json
\* (the index of the next attempt) and retry_state.attempt_number in
\* agenerate; model is the model named in the request of the latest attempt;
\* buffer is full_response; in_flight counts the attempts that wait for the
\* remote service.
NewFrame(method) ==
    [method    |-> method,
     pc        |-> "ready",
     attempt   |-> IF method = "_invoke_json" THEN 0 ELSE 1,
     model     |-> None,
     buffer    |-> <<>>,
     result    |-> NoResult,
     in_flight |-> 0,
     outcome   |-> RetryRunning]

\* What a call meets at a suspension point.
Event(type, value) == [type |-> type, value |-> value]

\* A faulty variant of frame_of: the locals are kept on the instance, one
\* frame for all calls.
frame_on_instance(c) == 1

\* The frame that holds the locals of call c: its own.
frame_of(c) == c

\* A faulty variant of may_start: an attempt is started without awaiting
\* the one before.
may_start_overlapping(f) == f.pc \in {"ready", "awaiting"}

\* `result = await generate(retry)` and `return await self._agenerate(...)`
\* inside `async for attempt in retryer`: the next attempt is reached only
\* when the await before it has returned or raised.
may_start(f) == f.pc = "ready"

\* _invoke_json from one suspension point to the next.
invoke_json_step(f, e) ==
    CASE e.type = "start" ->
            [f EXCEPT !.pc = "awaiting",
                      !.in_flight = @ + 1,
                      !.model = Attempt(f.attempt, None, NoResult).request.model]
      [] e.type = "response" ->
            LET r == IF configuration.model_supports_json
                     THEN native_json(e.value) ELSE manual_json(e.value)
                next == f.attempt + 1
                back == [f EXCEPT !.in_flight = @ - 1]
            IN IF r.exc # None
               THEN [back EXCEPT !.pc = "done",
                                 !.outcome = generate_ends(r.exc)]
               ELSE IF loop_continues(r.json, next)
               THEN [back EXCEPT !.pc = "ready", !.result = r,
                                 !.attempt = next]
               ELSE IF is_valid(r.json)
               THEN [back EXCEPT !.pc = "done", !.result = r,
                                 !.attempt = next,
                                 !.outcome = [kind |-> "returned",
                                              error |-> None, text |-> <<>>]]
               ELSE [back EXCEPT !.pc = "done", !.result = r,
                                 !.attempt = next,
                                 !.outcome =
                                     generate_ends(FAILED_TO_CREATE_JSON_ERROR)]
      [] e.type = "error" ->
            [f EXCEPT !.pc = "done",
                      !.in_flight = @ - 1,
                      !.outcome = generate_ends(e.value)]
      [] OTHER -> f

\* The retryer of agenerate after _agenerate raised exc.
attempt_failed(f, exc) ==
    IF ~retry_if_exception_type(exc)
    THEN [f EXCEPT !.pc = "done", !.outcome = generate_ends(exc)]
    ELSE IF stop_after_attempt(f.attempt)
    THEN [f EXCEPT !.pc = "done",
                   !.outcome = generate_ends(retryer_raises(exc))]
    ELSE [f EXCEPT !.pc = "sleep"]

\* agenerate from one suspension point to the next.
agenerate_step(f, e) ==
    CASE e.type = "start" ->
            IF self.model = None
            THEN attempt_failed(f, "ValueError")
            ELSE [f EXCEPT !.pc = "awaiting",
                           !.in_flight = @ + 1,
                           !.model = self.model,
                           !.buffer = <<>>]
      [] e.type = "delta" ->
            LET full_response == Append(f.buffer, e.value) IN
            IF call.callbacks > 0
            THEN attempt_failed([f EXCEPT !.buffer = full_response,
                                          !.in_flight = @ - 1],
                                "NameError")
            ELSE [f EXCEPT !.buffer = full_response]
      [] e.type = "end" ->
            [f EXCEPT !.pc = "done",
                      !.in_flight = @ - 1,
                      !.outcome = [kind |-> "returned", error |-> None,
                                   text |-> f.buffer]]
      [] e.type = "response" ->
            [f EXCEPT !.pc = "done",
                      !.in_flight = @ - 1,
                      !.outcome = [kind |-> "returned", error |-> None,
                                   text |-> <<e.value>>]]
      [] e.type = "error" ->
            attempt_failed([f EXCEPT !.in_flight = @ - 1], e.value)
      [] e.type = "wake" ->
            [f EXCEPT !.pc = "ready", !.attempt = @ + 1]
      [] OTHER -> f

step(f, e) ==
    IF f.method = "_invoke_json"
    THEN invoke_json_step(f, e) ELSE agenerate_step(f, e)

\* Two or more calls have been made on one instance and none has run yet.
\* The calls on a ClaudeChatLLM carry a predicate that accepts {"a":1} only.
ConcInit ==
    /\ \/ /\ configuration \in [model : {"primary"}, model_alt : {None, "alt"},
                                model_supports_json : BOOLEAN]
          /\ kwargs = [name |-> "op", model |-> None,
                       is_response_valid |->
                           [supplied |-> TRUE, accepts |-> {DictA}],
                       history |-> <<>>,
                       model_parameters |-> [response_format |-> None]]
          /\ self = [model |-> None, max_retries |-> 0]
          /\ call = [streaming |-> FALSE, callbacks |-> 0]
          /\ frames = [c \in Calls |-> NewFrame("_invoke_json")]
       \/ /\ configuration = [model |-> "primary", model_alt |-> None,
                              model_supports_json |-> FALSE]
          /\ kwargs = [name |-> None, model |-> None,
                       is_response_valid |-> [supplied |-> FALSE, accepts |-> {}],
                       history |-> <<>>,
                       model_parameters |-> [response_format |-> None]]
          /\ self \in [model : {None, "claude"}, max_retries : {2}]
          /\ call \in [streaming : BOOLEAN, callbacks : 0..1]
          /\ frames = [c \in Calls |-> NewFrame("agenerate")]
    /\ events = [c \in Calls |-> <<>>]
    /\ jpc = "idle"
    /\ retry = 0
    /\ result = NoResult
    /\ calls = <<>>
    /\ joutcome = Running
    /\ applied = {}
    /\ pc = "idle"
    /\ attempt_number = 0
    /\ sdk_retries = 0
    /\ requests = 0
    /\ all_retryable = TRUE
    /\ waits = <<>>
    /\ last_exc = None
    /\ outcome = RetryRunning
    /\ text_stream = NoStream
    /\ tokens = <<>>
    /\ NormIdle
    /\ ChainIdle
    /\ ParseIdle

\* Call c runs from the suspension point where it meets e to the next one.
Meet(c, e) ==
    /\ frames' = [frames EXCEPT ![frame_of(c)] = step(@, e)]
    /\ events' = [events EXCEPT ![c] = Append(@, e)]
    /\ UNCHANGED <<jvars, rvars, nvars, cvars, pvars>>

\* Call c starts an attempt and is suspended in the client call (or, with
\* no model, fails before it).
StartAttempt(c) ==
    /\ may_start(frames[frame_of(c)])
    /\ Meet(c, Event("start", None))

\* client.messages.create returns to call c.
ResponseArrives(c, value) ==
    /\ frames[frame_of(c)].pc = "awaiting"
    /\ IF frames[frame_of(c)].method = "_invoke_json"
       THEN value \in ConcOutputs
       ELSE value \in ConcTexts /\ ~call.streaming
    /\ Meet(c, Event("response", value))

\* The stream of call c delivers a delta.
DeltaArrives(c, text) ==
    /\ frames[frame_of(c)].pc = "awaiting"
    /\ frames[frame_of(c)].method = "agenerate" /\ call.streaming
    /\ Len(frames[frame_of(c)].buffer) < MaxDeltas
    /\ Meet(c, Event("delta", text))

\* The stream of call c ends.
StreamEnds(c) ==
    /\ frames[frame_of(c)].pc = "awaiting"
    /\ frames[frame_of(c)].method = "agenerate" /\ call.streaming
    /\ Meet(c, Event("end", None))

\* The client call of call c raises err.
RequestRaises(c, err) ==
    /\ frames[frame_of(c)].pc = "awaiting"
    /\ frames[frame_of(c)].method = "_invoke_json" => err = "RateLimitError"
    /\ Meet(c, Event("error", err))

\* The sleep of the retryer of call c is over.
Wake(c) ==
    /\ frames[frame_of(c)].pc = "sleep"
    /\ Meet(c, Event("wake", None))

ConcNext ==
    \E c \in Calls :
        \/ StartAttempt(c)
        \/ \E value \in ConcOutputs \cup ConcTexts :
               ResponseArrives(c, value)
        \/ \E text \in DeltaTexts : DeltaArrives(c, text)
        \/ StreamEnds(c)
        \/ \E err \in ConcErrors :
               RequestRaises(c, err)
        \/ Wake(c)

SpecConc == ConcInit /\ [][ConcNext]_vars

(***************************************************************************)
(* Claims about concurrent logical calls.                                  *)
(***************************************************************************)

\* The frame a call would have if it had met the events e alone.
RECURSIVE Replay(_, _)
Replay(method, e) ==
    IF e = <<>> THEN NewFrame(method)
    ELSE step(Replay(method, SubSeq(e, 1, Len(e) - 1)), e[Len(e)])

FailedOrInvalid(method, e) ==
    \/ e.type = "error"
    \/ /\ e.type = "response"
       /\ method = "_invoke_json"
       /\ LET r == IF configuration.model_supports_json
                   THEN native_json(e.value) ELSE manual_json(e.value)
          IN r.exc # None \/ ~is_valid(r.json)

\* C22: within one logical call no two attempts are in flight at a time,
\* and an attempt after the first starts only after the attempt before it
\* has completed with a failure or an invalid result.
C22_AttemptsAreSequential ==
    \A c \in DOMAIN frames :
        /\ frames[c].in_flight <= 1
        /\ \A i \in 2..Len(events[c]) :
              events[c][i].type = "start" =>
                  LET j == IF events[c][i - 1].type = "wake" THEN i - 2
                           ELSE i - 1
                  IN /\ j >= 1
                     /\ FailedOrInvalid(frames[c].method, events[c][j])

\* Call 1 is in its third attempt while call 2 has an attempt in flight.
C22_Witness ==
    /\ DOMAIN frames = Calls
    /\ frames[1].method = "_invoke_json"
    /\ frames[1].attempt = 2
    /\ frames[1].in_flight = 1
    /\ frames[2].in_flight = 1

(***************************************************************************)
(* Claims about the request of an attempt and the caller's arguments.      *)
(***************************************************************************)

\* C23: _invoke_json leaves the caller's keyword arguments (model, name,
\* history, model_parameters) as they were, at every step and so after the
\* call has returned or raised; the request of attempt i is a copy that
\* carries the call name <name>@<i> and, on a fallback attempt with an
\* alternate model configured, that model.
C23_CallerKwargsUnchanged ==
    /\ [][kwargs' = kwargs]_vars
    /\ [](\A i \in 1..Len(calls) :
             /\ calls[i].request.name =
                    call_name(Or(kwargs.name, "unknown"), i - 1)
             /\ calls[i].request.kwmodel =
                    IF i > 1 /\ configuration.model_alt # None
                    THEN configuration.model_alt ELSE kwargs.model)

\* A call has ended after a fallback attempt whose request named another
\* model and another call name than the caller's arguments do.
C23_Witness ==
    /\ jpc = "done"
    /\ Len(calls) >= 2
    /\ kwargs.name = "op"
    /\ kwargs.history # <<>>
    /\ calls[2].request.kwmodel = "alt"
    /\ calls[2].request.kwmodel # kwargs.model
    /\ calls[2].request.name = "op@1"

\* C25: the caller's validity predicate is called only with values that a
\* successful parse of an attempt's output produced, never with the empty
\* str that the manual branch stores as json after a parse failure.
C25_PredicateOnlyOnParsedValues ==
    kwargs.is_response_valid.supplied => applied \subseteq Dicts

(***************************************************************************)
(* Claims about the waits of the retry wrapper and about plain-string      *)
(* messages.                                                               *)
(***************************************************************************)

\* Every wait follows a failure the retryer retries, with attempts left in
\* the budget, and is followed by the next attempt.
WaitsOnlyBetweenAttempts ==
    [][waits' # waits =>
          /\ Len(waits') = Len(waits) + 1
          /\ last_exc \in CLAUDE_RETRY_ERROR_TYPES
          /\ ~stop_after_attempt(attempt_number)
          /\ outcome.kind = "running"
          /\ pc' = "attempt"]_vars

\* C24: every backoff wait lies between a retryable failure and the next
\* physical attempt (none before the first attempt, after a success, after
\* a non-retryable failure or after the failure that uses up the budget),
\* and a call that made k physical attempts made exactly k - 1 waits.
C24_WaitsBetweenPhysicalAttempts ==
    /\ WaitsOnlyBetweenAttempts
    /\ []((pc = "done" /\ requests >= 1) => Len(waits) = requests - 1)

\* C26: when ChatClaude.generate/agenerate (or Claude.generate/agenerate)
\* is called with messages given as a plain str, every physical attempt
\* receives the empty message list: the text of the str is not sent, and no
\* system instruction is derived from it.
C26_PlainStringSendsNoMessages ==
    (component = "ChatClaude" /\ messages.is_str) =>
        /\ npc # "normalize" =>
               request.messages = <<>> /\ ~request.system.passed
        /\ \A i \in 1..Len(delivered) :
               /\ delivered[i].messages = <<>>
               /\ ~delivered[i].system.passed

\* A call with the str "hello" has made all its physical attempts.
C26_Witness ==
    /\ component = "ChatClaude"
    /\ messages.is_str
    /\ messages.text = "hello"
    /\ npc = "done"
    /\ Len(delivered) = MaxSends

====
